---- MODULE Spec2Model ----
(***************************************************************************)
(* The question/answer bookkeeping of kitsune.questions: answer paging,    *)
(* the question's cached aggregates (num_answers, last_answer, solution)   *)
(* and the "taken" claim on a question.                                    *)
(*                                                                         *)
(* One question row and its answer rows are modelled.  Every handler is    *)
(* one atomic action (requests and jobs run one at a time here).           *)
(* datetime.now() is the variable now; every handler that may read the     *)
(* clock runs at an instant strictly later than the previous one.          *)
(***************************************************************************)
EXTENDS Integers, Sequences, FiniteSets, TLC

\* ---------------------------------------------------------------- bounds
\* Number of answers ever created under the question (ids are never reused).
MaxAnswers == 3
\* Last instant of the clock.
MaxTime == 6
\* Number of users (user 1 is the question's creator).
NumUsers == 3
\* Number of questions of the site (ids 1..NumQuestions).
NumQuestions == 3
\* Number of votes ever cast.
MaxVotes == 2
\* Parts of a day the clock of the vote counts tells apart.
TicksPerDay == 2

\* ------------------------------------------------------ program constants
\* None / SQL NULL of a nullable foreign key or timestamp.
NULL == 0
\* kitsune.questions.config.ANSWERS_PER_PAGE (20 in production), scaled down
\* so that page boundaries are crossed within MaxAnswers.
ANSWERS_PER_PAGE == 2
\* kitsune.questions.config.TAKE_TIMEOUT in clock units (600 s in production).
TAKE_TIMEOUT == 2
\* Buffer of reload_from_analytics (30,000 in production), scaled down so that
\* an analytics answer fills more than one buffer.
BUFFER_SIZE == 3
\* Sub-batch of one bulk_create (1,000 in production), scaled down likewise.
BATCH_SIZE == 2
\* timedelta(days=7) of the vote counts, scaled down to one day.
PAST_WEEK_DAYS == 1
\* Last instant of the clock of the vote counts: by then a vote cast at the
\* start has left the window.
LastInstant == (PAST_WEEK_DAYS + 1) * TicksPerDay
\* Age in clock units beyond which content marked as spam is cleaned up (the
\* configured cutoff of the cleanup handler), scaled down.
SPAM_CUTOFF == 2

Users == 1..NumUsers
\* Question.creator
Creator == 1
\* Profile.get_sumo_bot(): the system account, not one of the users who come
\* and go.
SumoBot == NumUsers + 1
\* The topics of the question's product (Topic primary keys).
Topics == {1, 2}
\* The topic the question is filed under when it is asked.
InitialTopic == 1
\* Reason texts the classifier may give.
Reasons == {"r1", "r2"}
\* The user who moderates answers (marks them as spam).
Moderator == Creator + 1
\* The two users, neither the creator, whose requests take the question
\* concurrently.
Takers == {Moderator, Moderator + 1}
\* The two requests that save a new answer concurrently.
Savers == {1, 2}
\* The users who mark content as spam where the actor matters.
SpamActors == {Moderator, Moderator + 1}
\* Question primary keys of the site.
QuestionIds == 1..NumQuestions
\* The questions the vote counts are followed for: two of them, so that a task
\* can be given one and not the other.
VotedIds == {1, 2}
\* The site question update_question_votes is queued for in SpecJobs.
JobIds == {1}
\* QuestionVisits.visits as reported by the analytics source.
VisitCounts == {1, 2}
\* The question ids the analytics source may report: those of the site's
\* questions and two more, of questions that are long gone.
AnalyticsIds == 1..(NumQuestions + 2)

VARIABLES
    now,          \* datetime.now()
    q,            \* the Question row
    answers,      \* the Answer rows of the question: id -> row
    nextId,       \* next Answer primary key
    users,        \* existing User rows
    pending,      \* queued update_answer_pages(question.id) tasks
    last,         \* history: the handler that ran last, its arguments and outcome
    qids,         \* ids of the existing Question rows of the site
    visits,       \* the QuestionVisits rows
    run,          \* the reload_from_analytics call: its locals and its transaction
    votes,        \* the QuestionVote rows
    nextVote,     \* next QuestionVote primary key
    nvpw,         \* Question.num_votes_past_week: question id -> counter
    vlast,        \* history: the vote handler that ran last
    cleanup,      \* the last run of the cleanup_old_spam job: what it did and reported
    flags,        \* the FlaggedObject rows about the question, oldest first
    verdict,      \* history: the classification result processed last
    taking,       \* the requests calling Question.take concurrently: user -> locals
    saving        \* the requests saving a new answer concurrently: request -> locals

\* The one question followed in detail, and the site's questions.
thread == <<now, q, answers, nextId, users, pending, last>>
ballot == <<votes, nextVote, nvpw, vlast>>
site == <<qids, visits, run, ballot>>
requests == <<flags, verdict, taking, saving>>
vars == <<thread, site, cleanup, requests>>

\* ----------------------------------------------------------- query helpers
\* Answer.objects.filter(question=question, is_spam=False)
NonSpam(ans) == {i \in DOMAIN ans : ~ans[i].is_spam}

\* queryset.order_by("-created")[n], n 0-based, over the rows S; the caller
\* checks n < count (IndexError otherwise).
NthByCreatedDesc(ans, S, n) ==
    CHOOSE i \in S : Cardinality({j \in S : ans[j].created > ans[i].created}) = n

\* list(queryset.order_by("created")) over the rows S
RECURSIVE OrderByCreated(_, _)
OrderByCreated(ans, S) ==
    IF S = {} THEN <<>>
    ELSE LET first == CHOOSE i \in S : \A j \in S : ans[i].created <= ans[j].created
         IN  <<first>> \o OrderByCreated(ans, S \ {first})

\* Question.save(update): "updated" is stamped only when update is requested.
QuestionSave(question, update, t) ==
    IF update THEN [question EXCEPT !.updated = t] ELSE question

\* Mutant of QuestionAfterAnswerSave: num_answers counts the spam answers too.
QuestionAfterAnswerSave_CountsSpam(question, ans, a, new, t) ==
    LET ns == NonSpam(ans)
        latest == IF ns = {} THEN NULL ELSE NthByCreatedDesc(ans, ns, 0)
    IN  QuestionSave([question EXCEPT !.num_answers = Cardinality(DOMAIN ans),
                                      !.last_answer = IF new THEN a ELSE latest],
                     TRUE, t)

\* The part of Answer.save after the row is written: the parent question's
\* num_answers and last_answer are recomputed and the question is saved.
QuestionAfterAnswerSave(question, ans, a, new, t) ==
    LET ns == NonSpam(ans)
        latest == IF ns = {} THEN NULL ELSE NthByCreatedDesc(ans, ns, 0)
    IN  QuestionSave([question EXCEPT !.num_answers = Cardinality(ns),
                                      !.last_answer = IF new THEN a ELSE latest],
                     TRUE, t)

\* Mutant of PageOfIndex: pages counted from 0.
PageOfIndex_ZeroBased(i) == i \div ANSWERS_PER_PAGE

\* Page of the answer at 0-based position i of the non-spam answers.
PageOfIndex(i) == i \div ANSWERS_PER_PAGE + 1

\* Mutant of NewAnswerPage: the new answer is counted before its page is taken.
NewAnswerPage_CountsNew(question) == (question.num_answers + 1) \div ANSWERS_PER_PAGE + 1

\* Page of a brand new answer.
NewAnswerPage(question) == question.num_answers \div ANSWERS_PER_PAGE + 1

\* Answer.save() of a new row.
AnswerSaveNew(question, ans, a, spam, t) ==
    LET row == [created |-> t, is_spam |-> spam, page |-> NewAnswerPage(question),
                marked_as_spam |-> NULL, marked_as_spam_by |-> NULL]
        ans2 == [i \in DOMAIN ans \cup {a} |-> IF i = a THEN row ELSE ans[i]]
    IN  [answers |-> ans2, q |-> QuestionAfterAnswerSave(question, ans2, a, TRUE, t)]

\* Answer.save() of an existing row whose in-memory fields are row.
AnswerSaveExisting(question, ans, a, row, t) ==
    LET ans2 == [ans EXCEPT ![a] = row]
    IN  [answers |-> ans2, q |-> QuestionAfterAnswerSave(question, ans2, a, FALSE, t)]

\* ------------------------------------------------------------------- Init
InitQuestion ==
    [exists |-> TRUE, num_answers |-> 0, last_answer |-> NULL, solution |-> NULL,
     updated |-> 0, taken_by |-> NULL, taken_until |-> NULL,
     is_spam |-> FALSE, marked_as_spam |-> NULL, marked_as_spam_by |-> NULL,
     topic |-> InitialTopic, tag |-> InitialTopic]

\* History of one handler run: its name, its arguments (answer a, acting user,
\* force), its outcome res, and what the handler found before it changed
\* anything: was a the question's last_answer / solution, was a spam, which
\* other answers existed, who held the claim until when, was the question
\* spam, who had marked a (the question, when a is NULL) as spam, and, for the
\* paging job, did a run of it that found the question come just before.
History(op, a, user, force, res) ==
    [op |-> op, a |-> a, user |-> user, force |-> force, res |-> res,
     was_last |-> a # NULL /\ q.last_answer = a,
     was_solution |-> a # NULL /\ q.solution = a,
     was_spam |-> a \in DOMAIN answers /\ answers[a].is_spam,
     others |-> DOMAIN answers \ {a},
     pre_by |-> q.taken_by, pre_until |-> q.taken_until,
     q_was_spam |-> q.is_spam,
     was_by |-> IF a \in DOMAIN answers THEN answers[a].marked_as_spam_by
                ELSE q.marked_as_spam_by,
     again |-> op = "pages" /\ last.op = "pages" /\ last.res = "ok"]

\* No reload has been called, or what the last one did is past.  Besides the
\* locals of the call the record keeps, for each id, in how many flushed buffers
\* the id was (seen).
IdleRun ==
    [pc |-> "idle", pageviews |-> <<>>, items |-> <<>>, i |-> 0,
     question_ids |-> <<>>, batches |-> <<>>, valid |-> {}, attempt |-> 1,
     errors |-> 0, before |-> {}, touched |-> {}, quiet |-> FALSE, repeat |-> FALSE,
     prev |-> <<>>, seen |-> [id \in AnalyticsIds |-> 0]]

\* The cleanup job has not run.
NoCleanup ==
    [status |-> "idle", reported |-> FALSE, questions_deleted |-> 0,
     answers_deleted |-> 0, gone_questions |-> 0, gone_answers |-> 0]

\* No classification result has been processed.
NoVerdict == [action |-> "none", topic |-> NULL, reason |-> NULL]

\* A request that has not begun: its position, the Question instance it holds
\* (self), its outcome, the Answer it saves (id, created, page), and whether
\* it ran while another request of its kind was under way (concurrent).
IdleRequest == [pc |-> "idle", self |-> InitQuestion, res |-> "none", id |-> NULL,
                created |-> NULL, page |-> NULL, concurrent |-> FALSE]

Init ==
    /\ now = 0
    /\ q = InitQuestion
    /\ answers = <<>>
    /\ nextId = 1
    /\ users = Users
    /\ pending = 0
    /\ last = [op |-> "init", a |-> NULL, user |-> NULL, force |-> FALSE, res |-> "ok",
               was_last |-> FALSE, was_solution |-> FALSE, was_spam |-> FALSE,
               others |-> {},
               pre_by |-> NULL, pre_until |-> NULL, q_was_spam |-> FALSE,
               was_by |-> NULL, again |-> FALSE]
    /\ qids = QuestionIds
    /\ visits = {}
    /\ run = IdleRun
    /\ votes = {}
    /\ nextVote = 1
    /\ nvpw = [id \in QuestionIds |-> 0]
    /\ vlast = [op |-> "none", ids |-> {}, res |-> "ok", twice |-> FALSE, was |-> <<>>,
                others |-> <<>>]
    /\ cleanup = NoCleanup
    /\ flags = <<>>
    /\ verdict = NoVerdict
    /\ taking = [u \in Takers |-> IdleRequest]
    /\ saving = [r \in Savers |-> IdleRequest]

Record(op, a, user, force, res) == last' = History(op, a, user, force, res)

\* ---------------------------------------------------------------- answers
\* A reply is posted: Answer(question=q, ...).save()
CreateAnswer(spam) ==
    /\ q.exists
    /\ nextId <= MaxAnswers
    /\ now < MaxTime
    /\ LET t == now + 1
           r == AnswerSaveNew(q, answers, nextId, spam, t)
       IN  /\ now' = t
           /\ answers' = r.answers
           /\ q' = r.q
    /\ nextId' = nextId + 1
    /\ Record("create", nextId, NULL, FALSE, "ok")
    /\ UNCHANGED <<users, pending>>
    /\ UNCHANGED <<site, cleanup, requests>>

\* Mutant of MarkedAsSpam: content that is already spam keeps its first stamp
\* and actor.
MarkedAsSpam_FirstCallWins(row, by_user, t) ==
    IF row.is_spam THEN row
    ELSE [row EXCEPT !.is_spam = TRUE, !.marked_as_spam = t, !.marked_as_spam_by = by_user]

\* The fields mark_as_spam(by_user) sets on a Question or an Answer at instant t,
\* before it saves the row.
MarkedAsSpam(row, by_user, t) ==
    [row EXCEPT !.is_spam = TRUE, !.marked_as_spam = t, !.marked_as_spam_by = by_user]

\* Question.mark_as_spam(by_user)
QuestionMarkAsSpam(by_user) ==
    /\ q.exists
    /\ by_user \in users
    /\ now < MaxTime
    /\ now' = now + 1
    /\ q' = QuestionSave(MarkedAsSpam(q, by_user, now'), FALSE, NULL)
    /\ Record("qspam", NULL, by_user, FALSE, "ok")
    /\ UNCHANGED <<answers, nextId, users, pending>>
    /\ UNCHANGED <<site, cleanup, requests>>

\* Answer.mark_as_spam(by_user)
AnswerMarkAsSpam(a, by_user) ==
    /\ q.exists
    /\ a \in DOMAIN answers
    /\ by_user \in users
    /\ now < MaxTime
    /\ LET t == now + 1
           row == MarkedAsSpam(answers[a], by_user, t)
           r == AnswerSaveExisting(q, answers, a, row, t)
       IN  /\ now' = t
           /\ answers' = r.answers
           /\ q' = r.q
    /\ Record("spam", a, by_user, FALSE, "ok")
    /\ UNCHANGED <<nextId, users, pending>>
    /\ UNCHANGED <<site, cleanup, requests>>

\* Answer.save() of a new answer, statement by statement, in a request that
\* runs beside another one.  The request builds the Answer on the Question
\* instance it loaded; created is stamped when the Answer is built.
SaveBegin(r) ==
    /\ q.exists
    /\ saving[r].pc = "idle"
    /\ now < MaxTime
    /\ now' = now + 1
    /\ saving' = [saving EXCEPT ![r] = [IdleRequest EXCEPT !.pc = "new", !.self = q,
                                                           !.created = now']]
    /\ UNCHANGED <<q, answers, nextId, users, pending, last>>
    /\ UNCHANGED <<site, cleanup, flags, verdict, taking>>

\* The page is taken from the instance's num_answers and the row is inserted.
SaveInsert(r) ==
    /\ saving[r].pc = "new"
    /\ nextId <= MaxAnswers
    /\ LET page == NewAnswerPage(saving[r].self)
           row == [created |-> saving[r].created, is_spam |-> FALSE, page |-> page,
                   marked_as_spam |-> NULL, marked_as_spam_by |-> NULL]
       IN  /\ answers' = [i \in DOMAIN answers \cup {nextId} |->
                            IF i = nextId THEN row ELSE answers[i]]
           /\ saving' = [saving EXCEPT ![r].pc = "inserted", ![r].id = nextId,
                                       ![r].page = page]
    /\ nextId' = nextId + 1
    /\ UNCHANGED <<now, q, users, pending, last>>
    /\ UNCHANGED <<site, cleanup, flags, verdict, taking>>

\* The non-spam answers are counted; num_answers and last_answer are set on
\* the instance.
SaveCount(r) ==
    /\ saving[r].pc = "inserted"
    /\ saving' = [saving EXCEPT ![r].pc = "counted",
                                ![r].self.num_answers = Cardinality(NonSpam(answers)),
                                ![r].self.last_answer = saving[r].id]
    /\ UNCHANGED thread
    /\ UNCHANGED <<site, cleanup, flags, verdict, taking>>

\* self.question.save(update): the whole instance is written.
SaveQuestion(r) ==
    /\ saving[r].pc = "counted"
    /\ now < MaxTime
    /\ now' = now + 1
    /\ q' = QuestionSave(saving[r].self, TRUE, now')
    /\ saving' = [o \in Savers |->
                    IF o = r
                    THEN [saving[r] EXCEPT !.pc = "done", !.res = "ok",
                            !.concurrent = @ \/ \E p \in Savers \ {r} :
                                                    saving[p].pc \notin {"idle", "done"}]
                    ELSE [saving[o] EXCEPT !.concurrent =
                            @ \/ saving[o].pc \notin {"idle", "done"}]]
    /\ Record("create", saving[r].id, NULL, FALSE, "ok")
    /\ UNCHANGED <<answers, nextId, users, pending>>
    /\ UNCHANGED <<site, cleanup, flags, verdict, taking>>

\* An answer saved before either of the two requests began.
EarlierAnswer ==
    /\ \A r \in Savers : saving[r].pc = "idle"
    /\ CreateAnswer(FALSE)

\* Mutant of QuestionBeforeAnswerDelete: the solution falls back to the previous
\* answer, the way last_answer does, instead of being cleared.
QuestionBeforeAnswerDelete_SolutionFallsBack(question, ans, a) ==
    LET all == DOMAIN ans
        prev == IF Cardinality(all) >= 2 THEN NthByCreatedDesc(ans, all, 1) ELSE NULL
        q1 == IF question.last_answer = a THEN [question EXCEPT !.last_answer = prev]
              ELSE question
        q2 == IF q1.solution = a THEN [q1 EXCEPT !.solution = prev] ELSE q1
    IN  [q2 EXCEPT !.num_answers = Cardinality(NonSpam(ans)) - 1]

\* The question row as Answer.delete saves it, before the row of a is removed.
QuestionBeforeAnswerDelete(question, ans, a) ==
    LET all == DOMAIN ans
        q1 == IF question.last_answer = a
              THEN [question EXCEPT !.last_answer =
                        IF Cardinality(all) >= 2 THEN NthByCreatedDesc(ans, all, 1)
                        ELSE NULL]
              ELSE question
        q2 == IF q1.solution = a THEN [q1 EXCEPT !.solution = NULL] ELSE q1
        q3 == [q2 EXCEPT !.num_answers = Cardinality(NonSpam(ans)) - 1]
    IN  QuestionSave(q3, FALSE, NULL)

\* on_delete=SET_NULL of Question.last_answer and Question.solution.
SetNullOnAnswerDelete(question, a) ==
    [question EXCEPT !.last_answer = IF @ = a THEN NULL ELSE @,
                     !.solution = IF @ = a THEN NULL ELSE @]

\* Answer.delete()
AnswerDelete(a) ==
    /\ q.exists
    /\ a \in DOMAIN answers
    /\ q' = SetNullOnAnswerDelete(QuestionBeforeAnswerDelete(q, answers, a), a)
    /\ answers' = [i \in DOMAIN answers \ {a} |-> answers[i]]
    /\ pending' = pending + 1
    /\ Record("delete", a, NULL, FALSE, "ok")
    /\ UNCHANGED <<now, nextId, users>>
    /\ UNCHANGED <<site, cleanup, requests>>

\* Mutant of PagesLoop: the page is moved from its stored value by the page of
\* the rank, instead of being set to it.
RECURSIVE PagesLoop_FromStoredPage(_, _, _, _, _)
PagesLoop_FromStoredPage(question, ans, todo, i, t) ==
    IF todo = <<>> THEN [answers |-> ans, q |-> question]
    ELSE LET a == Head(todo)
             row == [ans[a] EXCEPT !.page = @ + PageOfIndex(i) - 1]
             r == AnswerSaveExisting(question, ans, a, row, t)
         IN  PagesLoop_FromStoredPage(r.q, r.answers, Tail(todo), i + 1, t)

\* The loop of update_answer_pages over the answers fetched at its start.
RECURSIVE PagesLoop(_, _, _, _, _)
PagesLoop(question, ans, todo, i, t) ==
    IF todo = <<>> THEN [answers |-> ans, q |-> question]
    ELSE LET a == Head(todo)
             row == [ans[a] EXCEPT !.page = PageOfIndex(i)]
             r == AnswerSaveExisting(question, ans, a, row, t)
         IN  PagesLoop(r.q, r.answers, Tail(todo), i + 1, t)

\* The task update_answer_pages(question_id), taken off the queue and run.
UpdateAnswerPages ==
    /\ pending > 0
    /\ pending' = pending - 1
    /\ IF ~q.exists
       THEN /\ Record("pages", NULL, NULL, FALSE, "DoesNotExist")
            /\ UNCHANGED <<now, q, answers>>
       ELSE /\ now < MaxTime
            /\ LET t == now + 1
                   r == PagesLoop(q, answers, OrderByCreated(answers, NonSpam(answers)), 0, t)
               IN  /\ now' = t
                   /\ answers' = r.answers
                   /\ q' = r.q
            /\ Record("pages", NULL, NULL, FALSE, "ok")
    /\ UNCHANGED <<nextId, users>>
    /\ UNCHANGED <<site, cleanup, requests>>

\* q.solution = answer; q.save()
SetSolution(a) ==
    /\ q.exists
    /\ a \in DOMAIN answers
    /\ q.solution # a
    /\ q' = QuestionSave([q EXCEPT !.solution = a], FALSE, NULL)
    /\ Record("solve", a, NULL, FALSE, "ok")
    /\ UNCHANGED <<now, answers, nextId, users, pending>>
    /\ UNCHANGED <<site, cleanup, requests>>

\* Question.delete(): the answers go with it (on_delete=CASCADE).
QuestionDelete ==
    /\ q.exists
    /\ q' = [q EXCEPT !.exists = FALSE, !.last_answer = NULL, !.solution = NULL]
    /\ answers' = <<>>
    /\ Record("qdelete", NULL, NULL, FALSE, "ok")
    /\ UNCHANGED <<now, nextId, users, pending>>
    /\ UNCHANGED <<site, cleanup, requests>>

\* ------------------------------------------------------------------ claim
\* Mutant of TakeOutcome: force also lets the creator through.
TakeOutcome_ForceBeatsCreator(question, user, force) ==
    IF user = Creator /\ ~force THEN "InvalidUserException"
    ELSE IF question.taken_by \notin {NULL, user} /\ ~force THEN "AlreadyTakenException"
    ELSE "ok"

\* Mutant of TakeOutcome: the test of force is inverted.
TakeOutcome_ForceInverted(question, user, force) ==
    IF user = Creator THEN "InvalidUserException"
    ELSE IF question.taken_by \notin {NULL, user} /\ force THEN "AlreadyTakenException"
    ELSE "ok"

\* Mutant of TakeOutcome: force is ignored.
TakeOutcome_IgnoresForce(question, user, force) ==
    IF user = Creator THEN "InvalidUserException"
    ELSE IF question.taken_by \notin {NULL, user} THEN "AlreadyTakenException"
    ELSE "ok"

\* Outcome of Question.take(user, force): which exception it raises, if any.
TakeOutcome(question, user, force) ==
    IF user = Creator THEN "InvalidUserException"
    ELSE IF question.taken_by \notin {NULL, user} /\ ~force THEN "AlreadyTakenException"
    ELSE "ok"

\* Mutant of TakeQuestion: the holder's own expiry is kept when they take again.
TakeQuestion_KeepsExpiry(question, user, t) ==
    [question EXCEPT !.taken_by = user,
                     !.taken_until = IF question.taken_by = user THEN @ ELSE t + TAKE_TIMEOUT]

\* The question row a successful Question.take(user) saves at instant t.
TakeQuestion(question, user, t) ==
    QuestionSave([question EXCEPT !.taken_by = user, !.taken_until = t + TAKE_TIMEOUT],
                 FALSE, NULL)

\* Question.take(user, force)
Take(user, force) ==
    /\ q.exists
    /\ user \in users
    /\ now < MaxTime
    /\ now' = now + 1
    /\ LET res == TakeOutcome(q, user, force)
       IN  /\ q' = IF res = "ok" THEN TakeQuestion(q, user, now') ELSE q
           /\ Record("take", NULL, user, force, res)
    /\ UNCHANGED <<answers, nextId, users, pending>>
    /\ UNCHANGED <<site, cleanup, requests>>

\* A request loads the question; Question.take will be called on this instance.
TakeLoad(user) ==
    /\ q.exists
    /\ user \in users
    /\ taking[user].pc \in {"idle", "done"}
    /\ taking' = [taking EXCEPT ![user] = [IdleRequest EXCEPT !.pc = "loaded", !.self = q]]
    /\ UNCHANGED <<thread, site, cleanup, flags, verdict, saving>>

\* The request calls question.take(user) on the instance it loaded: the test of
\* taken_by reads the instance, and save() writes the whole instance.
TakeLoaded(user) ==
    /\ q.exists
    /\ taking[user].pc = "loaded"
    /\ now < MaxTime
    /\ now' = now + 1
    /\ LET self == taking[user].self
           res == TakeOutcome(self, user, FALSE)
       IN  /\ q' = IF res = "ok" THEN TakeQuestion(self, user, now') ELSE q
           /\ taking' = [other \in Takers |->
                           IF other = user
                           THEN [taking[user] EXCEPT !.pc = "done", !.res = res,
                                   !.concurrent = @ \/ \E o \in Takers \ {user} :
                                                           taking[o].pc = "loaded"]
                           ELSE [taking[other] EXCEPT !.concurrent =
                                   @ \/ taking[other].pc = "loaded"]]
           /\ Record("take", NULL, user, FALSE, res)
    /\ UNCHANGED <<answers, nextId, users, pending>>
    /\ UNCHANGED <<site, cleanup, flags, verdict, saving>>

\* Mutant of IsTakenValue: a claim expiring at this very instant counts as expired.
IsTakenValue_ExpiresEarly(question, t) ==
    ~(question.taken_by = NULL \/ question.taken_until = NULL \/ question.taken_until <= t)

\* Value of the property Question.is_taken read at instant t.
IsTakenValue(question, t) ==
    ~(question.taken_by = NULL \/ question.taken_until = NULL \/ question.taken_until < t)

\* The question row after the property Question.is_taken was read at instant t.
IsTakenQuestion(question, t) ==
    IF IsTakenValue(question, t) THEN question
    ELSE IF question.taken_by # NULL \/ question.taken_until # NULL
         THEN QuestionSave([question EXCEPT !.taken_by = NULL, !.taken_until = NULL],
                           FALSE, NULL)
         ELSE question

\* A read of Question.is_taken
IsTaken ==
    /\ q.exists
    /\ now < MaxTime
    /\ now' = now + 1
    /\ q' = IsTakenQuestion(q, now')
    /\ Record("is_taken", NULL, NULL, FALSE, IF IsTakenValue(q, now') THEN "True" ELSE "False")
    /\ UNCHANGED <<answers, nextId, users, pending>>
    /\ UNCHANGED <<site, cleanup, requests>>

\* A user other than the creator is deleted: Question.taken_by,
\* Question.marked_as_spam_by and Answer.marked_as_spam_by are
\* on_delete=SET_NULL.
UserDelete(u) ==
    /\ u \in users \ {Creator}
    /\ users' = users \ {u}
    /\ q' = [q EXCEPT !.taken_by = IF @ = u THEN NULL ELSE @,
                      !.marked_as_spam_by = IF @ = u THEN NULL ELSE @]
    /\ answers' = [i \in DOMAIN answers |->
                     [answers[i] EXCEPT !.marked_as_spam_by = IF @ = u THEN NULL ELSE @]]
    /\ Record("udelete", NULL, u, FALSE, "ok")
    /\ UNCHANGED <<now, nextId, pending>>
    /\ UNCHANGED <<site, cleanup, requests>>

\* Time passes.
Tick ==
    /\ now < MaxTime
    /\ now' = now + 1
    /\ Record("tick", NULL, NULL, FALSE, "ok")
    /\ UNCHANGED <<q, answers, nextId, users, pending>>
    /\ UNCHANGED <<site, cleanup, requests>>

\* ------------------------------------------------------------ visit counts
\* QuestionVisits.reload_from_analytics over the questions of the site.  Each
\* database statement of the reload is one action, so that requests deleting
\* questions run between them.  The reload runs in one transaction: what it
\* deleted or inserted stays locked until it commits or rolls back, and the
\* deletion of a question whose rows it has touched waits for that.

\* The rows of the QuestionVisits table for the questions ids.
RowsOf(rows, ids) == {r \in rows : r.question \in ids}

\* The questions the rows refer to.
QuestionsOf(rows) == {r.question : r \in rows}

\* list(pageviews_by_question_id): the ids of the analytics answer, here in
\* ascending order.
RECURSIVE Ascending(_)
Ascending(S) ==
    IF S = {} THEN <<>>
    ELSE LET m == CHOOSE x \in S : \A y \in S : x <= y
         IN  <<m>> \o Ascending(S \ {m})

\* Every answer the analytics source can give: question id -> visits.
Pageviews == UNION {[S -> {v}] : S \in SUBSET QuestionIds, v \in VisitCounts}

\* kitsune.sumo.utils.chunked(seq, n): consecutive pieces of at most n items.
RECURSIVE chunked(_, _)
chunked(seq, n) ==
    IF Len(seq) <= n THEN (IF seq = <<>> THEN <<>> ELSE <<seq>>)
    ELSE <<SubSeq(seq, 1, n)>> \o chunked(SubSeq(seq, n + 1, Len(seq)), n)

\* Mutant of FlushPoint: the last, partly filled buffer is never flushed.
FlushPoint_FullBuffersOnly(i, total_count) == (i % BUFFER_SIZE) = 0

\* The loop of reload_from_analytics flushes its buffer after item i (1-based)
\* unless ((i % 30000) != 0) and (i != total_count).
FlushPoint(i, total_count) == ~((i % BUFFER_SIZE) # 0 /\ i # total_count)

\* The first item after item i at which the loop flushes; 0 when the loop ends
\* without flushing again.
RECURSIVE NextFlush(_, _)
NextFlush(i, total_count) ==
    IF i >= total_count THEN 0
    ELSE IF FlushPoint(i + 1, total_count) THEN i + 1
    ELSE NextFlush(i + 1, total_count)

\* Mutant of StatementDelete: the whole table is cleared.
StatementDelete_WholeTable(rows, question_ids) == {}

\* Mutant of StatementDelete: the stale rows are selected by their visits column.
StatementDelete_ByVisits(rows, question_ids) ==
    {r \in rows : r.visits \notin question_ids}

\* cls.objects.filter(question_id__in=question_ids).delete()
StatementDelete(rows, question_ids) == rows \ RowsOf(rows, question_ids)

\* Question.objects.filter(id__in=batch_of_question_ids).values_list("id", flat=True)
ExistingIds(batch_of_question_ids, existing) ==
    {batch_of_question_ids[k] : k \in DOMAIN batch_of_question_ids} \cap existing

\* Mutant of IntegrityError: the insert does not check that the question exists.
IntegrityError_Unchecked(rows, ids, existing) == QuestionsOf(rows) \cap ids # {}

\* bulk_create of rows for the questions ids raises IntegrityError when the
\* sub-query for a question's id finds no question (question_id is NOT NULL), or
\* when the question already has a row (question is unique).
IntegrityError(rows, ids, existing) ==
    \/ ids \ existing # {}
    \/ QuestionsOf(rows) \cap ids # {}

\* The rows bulk_create inserts: instance_by_question_id[id] for the ids.
StatementInsert(rows, ids, pageviews) ==
    rows \cup {[question |-> id, visits |-> pageviews[id]] : id \in ids}

\* Mutant of Rollback: only the failed sub-batch is undone, the rest is kept.
Rollback_SavepointOnly(rows, before, touched) == rows

\* Leaving the outer transaction.atomic() by an exception: the rows of every
\* question the reload touched are as they were before it.
Rollback(rows, before, touched) ==
    (rows \ RowsOf(rows, touched)) \cup RowsOf(before, touched)

\* The reload is between two of its statements.
Running == run.pc \in {"delete", "filter", "insert"}

\* Mutant of Continue: the buffer is not cleared after its flush.
Continue_KeepsBuffer(r, i) ==
    LET total_count == Len(r.items)
        j == NextFlush(i, total_count)
    IN  IF j = 0
        THEN [r EXCEPT !.pc = "done", !.i = total_count, !.question_ids = <<>>,
                       !.batches = <<>>, !.valid = {}, !.attempt = 1,
                       !.quiet = TRUE, !.prev = r.pageviews]
        ELSE [r EXCEPT !.pc = "delete", !.i = j,
                       !.question_ids = SubSeq(r.items, 1, j),
                       !.batches = <<>>, !.valid = {}, !.attempt = 1]

\* The loop of the reload from item i on: the next buffer, or the end.
Continue(r, i) ==
    LET total_count == Len(r.items)
        j == NextFlush(i, total_count)
    IN  IF j = 0
        THEN [r EXCEPT !.pc = "done", !.i = total_count, !.question_ids = <<>>,
                       !.batches = <<>>, !.valid = {}, !.attempt = 1,
                       !.quiet = TRUE, !.prev = r.pageviews]
        ELSE [r EXCEPT !.pc = "delete", !.i = j,
                       !.question_ids = SubSeq(r.items, i + 1, j),
                       !.batches = <<>>, !.valid = {}, !.attempt = 1]

\* QuestionVisits.reload_from_analytics() is called: the transaction begins and
\* the analytics answer is fetched.
StartReload(pageviews) ==
    /\ ~Running
    /\ run' = Continue([run EXCEPT !.pageviews = pageviews,
                                   !.items = Ascending(DOMAIN pageviews),
                                   !.before = visits, !.touched = {}, !.errors = 0,
                                   !.seen = [id \in AnalyticsIds |-> 0],
                                   !.repeat = run.quiet /\ run.prev = pageviews],
                       0)
    /\ UNCHANGED <<qids, visits>>
    /\ UNCHANGED <<thread, cleanup, requests>>
    /\ UNCHANGED ballot

\* The stale rows of the buffer's questions are deleted.
DeleteStale ==
    /\ run.pc = "delete"
    /\ LET question_ids == {run.question_ids[k] : k \in DOMAIN run.question_ids}
       IN  /\ visits' = StatementDelete(visits, question_ids)
           /\ run' = [run EXCEPT !.pc = "filter",
                                 !.touched = @ \cup QuestionsOf(visits \ visits'),
                                 !.seen = [id \in AnalyticsIds |->
                                             IF id \in question_ids THEN @[id] + 1
                                             ELSE @[id]],
                                 !.batches = chunked(run.question_ids, BATCH_SIZE)]
    /\ UNCHANGED qids
    /\ UNCHANGED <<thread, cleanup, requests>>
    /\ UNCHANGED ballot

\* create_batch, first statement: which questions of the sub-batch exist.
FilterBatch ==
    /\ run.pc = "filter"
    /\ run' = [run EXCEPT !.pc = "insert", !.valid = ExistingIds(Head(run.batches), qids)]
    /\ UNCHANGED <<qids, visits>>
    /\ UNCHANGED <<thread, cleanup, requests>>
    /\ UNCHANGED ballot

\* create_batch, second statement: bulk_create.  The first IntegrityError of a
\* sub-batch rolls its savepoint back and create_batch is called again; the
\* second one leaves reload_from_analytics and its transaction.
InsertBatch ==
    /\ run.pc = "insert"
    /\ IF IntegrityError(visits, run.valid, qids)
       THEN IF run.attempt = 1
            THEN /\ run' = [run EXCEPT !.pc = "filter", !.attempt = 2, !.valid = {},
                                       !.errors = @ + 1]
                 /\ UNCHANGED visits
            ELSE /\ visits' = Rollback(visits, run.before, run.touched)
                 /\ run' = [run EXCEPT !.pc = "aborted", !.valid = {}, !.quiet = FALSE,
                                       !.errors = @ + 1]
       ELSE /\ visits' = StatementInsert(visits, run.valid, run.pageviews)
            /\ LET r == [run EXCEPT !.touched = @ \cup run.valid,
                                    !.batches = Tail(@), !.valid = {}, !.attempt = 1]
               IN  run' = IF r.batches # <<>> THEN [r EXCEPT !.pc = "filter"]
                          ELSE Continue(r, r.i)
    /\ UNCHANGED qids
    /\ UNCHANGED <<thread, cleanup, requests>>
    /\ UNCHANGED ballot

\* A question of the site is deleted by some request; its QuestionVisits row
\* and its QuestionVote rows go with it (on_delete=CASCADE).  While a reload
\* holds the question's rows the request waits.
SiteQuestionDelete(id) ==
    /\ id \in qids
    /\ Running => id \notin run.touched
    /\ qids' = qids \ {id}
    /\ visits' = visits \ RowsOf(visits, {id})
    /\ run' = IF Running THEN [run EXCEPT !.quiet = FALSE, !.repeat = FALSE] ELSE IdleRun
    /\ votes' = {v \in votes : v.question # id}
    /\ nvpw' = [k \in DOMAIN nvpw \ {id} |-> nvpw[k]]
    /\ vlast' = [op |-> "none", ids |-> {}, res |-> "ok", twice |-> FALSE, was |-> <<>>,
                others |-> <<>>]
    /\ UNCHANGED nextVote
    /\ UNCHANGED <<thread, cleanup, requests>>

\* ------------------------------------------------------------------ votes
\* QuestionVote rows and Question.num_votes_past_week of the site's questions.
\* Here the clock counts parts of a day (TicksPerDay to the day) and moves by
\* ClockTick only, so that several handlers can run within one part of a day.

\* datetime.date(): the day an instant falls on.
Date(t) == t \div TicksPerDay

\* A date compared with a DateTimeField: the instant of its midnight; also
\* .replace(hour=0, minute=0, second=0, microsecond=0) of an instant of that day.
Midnight(day) == day * TicksPerDay

\* timedelta(days=days)
Timedelta(days) == days * TicksPerDay

\* QuestionVote.objects.filter(question_id=id, created__range=(lo, hi))
VotesInRange(rows, id, lo, hi) ==
    {v \in rows : v.question = id /\ lo <= v.created /\ v.created <= hi}

\* Mutant of SyncNumVotesPastWeek: the window starts exactly seven days back.
SyncNumVotesPastWeek_Rolling(rows, id, t) ==
    Cardinality(VotesInRange(rows, id, t - Timedelta(PAST_WEEK_DAYS), t))

\* Question.sync_num_votes_past_week() at instant t: the value n.
SyncNumVotesPastWeek(rows, id, t) ==
    LET last_week == Date(t) - PAST_WEEK_DAYS
    IN  Cardinality(VotesInRange(rows, id, Midnight(last_week), t))

\* Mutant of SyncQuestion: the count is added to the stored counter.
SyncQuestion_Accumulates(counter, id, rows, t) ==
    [counter EXCEPT ![id] = @ + SyncNumVotesPastWeek(rows, id, t)]

\* q.sync_num_votes_past_week(); q.save(force_update=True)
SyncQuestion(counter, id, rows, t) ==
    [counter EXCEPT ![id] = SyncNumVotesPastWeek(rows, id, t)]

\* Mutant of ChunkNumVotesPastWeek: past_week is not cut back to midnight.
ChunkNumVotesPastWeek_Rolling(rows, id, t) ==
    LET past_week == t - Timedelta(PAST_WEEK_DAYS)
        counted == VotesInRange(rows, id, past_week, t)
    IN  IF counted = {} THEN 0 ELSE Cardinality(counted)

\* The value update_question_vote_chunk gives question id at instant t:
\* Coalesce(Subquery(count of the question's votes since past_week), 0).
ChunkNumVotesPastWeek(rows, id, t) ==
    LET past_week == Midnight(Date(t - Timedelta(PAST_WEEK_DAYS)))
        counted == VotesInRange(rows, id, past_week, t)
    IN  IF counted = {} THEN 0 ELSE Cardinality(counted)

\* History of the vote handlers: the handler that ran last, the questions it was
\* given, its outcome, whether the handler before it was the same sync of the
\* same question, and what it found: the counters of the questions it was given
\* (was, kept of a sync only) and of the other questions (others).
VoteHistory(op, ids, res, twice) ==
    [op |-> op, ids |-> ids, res |-> res, twice |-> twice,
     was |-> IF op = "sync" THEN [k \in DOMAIN nvpw \cap ids |-> nvpw[k]] ELSE <<>>,
     others |-> [k \in DOMAIN nvpw \ ids |-> nvpw[k]]]

NoVoteHistory ==
    [op |-> "none", ids |-> {}, res |-> "ok", twice |-> FALSE, was |-> <<>>, others |-> <<>>]

\* QuestionVote(question=id).save(): created defaults to datetime.now.  Its
\* post_save signal queues update_question_votes(id), which runs at any later
\* moment (UpdateQuestionVotes).
CastVote(id) ==
    /\ id \in qids
    /\ nextVote <= MaxVotes
    /\ votes' = votes \cup {[id |-> nextVote, question |-> id, created |-> now]}
    /\ nextVote' = nextVote + 1
    /\ vlast' = NoVoteHistory
    /\ UNCHANGED <<qids, nvpw, visits, run>>
    /\ UNCHANGED <<thread, cleanup, requests>>

\* Mutant of UpdateQuestionVotesOutcome: Question.DoesNotExist is not caught.
UpdateQuestionVotesOutcome_Uncaught(id, existing) ==
    IF id \in existing THEN "ok" ELSE "raised"

\* How update_question_votes(id) ends: "ok" when it found the question,
\* "DoesNotExist" when Question.objects.get raised Question.DoesNotExist, which
\* the task catches and logs before it returns.
UpdateQuestionVotesOutcome(id, existing) ==
    IF id \in existing THEN "ok" ELSE "DoesNotExist"

\* The task update_question_votes(question_id)
UpdateQuestionVotes(id) ==
    /\ LET res == UpdateQuestionVotesOutcome(id, qids)
       IN  IF res = "ok"
           THEN /\ nvpw' = SyncQuestion(nvpw, id, votes, now)
                /\ vlast' = VoteHistory("sync", {id}, "ok",
                                        vlast.op = "sync" /\ vlast.ids = {id} /\ vlast.res = "ok")
           ELSE /\ vlast' = VoteHistory("sync", {id}, res, FALSE)
                /\ UNCHANGED nvpw
    /\ UNCHANGED <<qids, votes, nextVote, visits, run>>
    /\ UNCHANGED <<thread, cleanup, requests>>

\* The task update_question_vote_chunk(question_ids)
UpdateQuestionVoteChunk(question_ids) ==
    /\ nvpw' = [id \in DOMAIN nvpw |->
                  IF id \in question_ids THEN ChunkNumVotesPastWeek(votes, id, now)
                  ELSE nvpw[id]]
    /\ vlast' = VoteHistory("chunk", question_ids, "ok", FALSE)
    /\ UNCHANGED <<qids, votes, nextVote, visits, run>>
    /\ UNCHANGED <<thread, cleanup, requests>>

\* A part of a day passes.
ClockTick ==
    /\ now < LastInstant
    /\ now' = now + 1
    /\ vlast' = NoVoteHistory
    /\ UNCHANGED <<q, answers, nextId, users, pending, last, cleanup, requests>>
    /\ UNCHANGED <<qids, votes, nextVote, nvpw, visits, run>>

\* ---------------------------------------------------------- classification
\* kitsune.questions.utils.process_classification_result, described by the
\* specification and by its tests: the verdict of the classifier is applied to
\* the question.  The classifier is queued when a question is created, so a
\* result is processed for a question that is not spam and has no flag yet.

\* Every result the classifier can give: its action, the topic of its topic
\* result (NULL: no topic result) and its reason text.
ClassificationResults ==
    [action : {"spam", "flag_review", "not_spam"}, topic : Topics \cup {NULL},
     reason : Reasons]

\* The notes of a flag made for a classifier's reason: a text with the reason
\* in it.
Notes(reason) == <<"classifier", reason>>

\* The text has the piece in it (notes__contains).
Contains(text, piece) == \E k \in DOMAIN text : text[k] = piece

\* The FlaggedObject row the system bot creates.
Flag(status, reason, notes) ==
    [creator |-> SumoBot, status |-> status, reason |-> reason, notes |-> notes]

\* Mutant of Processed: a question flagged for review is hidden as spam as well.
Processed_FlagAlsoMarks(question, rows, result, t) ==
    CASE result.action = "spam" ->
           [q |-> QuestionSave(MarkedAsSpam(question, SumoBot, t), FALSE, NULL),
            flags |-> rows]
      [] result.action = "flag_review" ->
           [q |-> QuestionSave(MarkedAsSpam(question, SumoBot, t), FALSE, NULL),
            flags |-> Append(rows, Flag("pending", "spam", Notes(result.reason)))]
      [] result.action = "not_spam" /\ result.topic # NULL ->
           [q |-> QuestionSave([question EXCEPT !.topic = result.topic,
                                                !.tag = result.topic], FALSE, NULL),
            flags |-> Append(rows, Flag("accepted", "content_moderation",
                                        Notes(result.reason)))]
      [] OTHER -> [q |-> question, flags |-> rows]

\* The question and the flags after the result was processed at instant t:
\* exactly one of mark as spam, flag for review, reassign the topic; a result
\* that is not spam and has no topic result changes nothing.
Processed(question, rows, result, t) ==
    CASE result.action = "spam" ->
           [q |-> QuestionSave(MarkedAsSpam(question, SumoBot, t), FALSE, NULL),
            flags |-> rows]
      [] result.action = "flag_review" ->
           [q |-> question,
            flags |-> Append(rows, Flag("pending", "spam", Notes(result.reason)))]
      [] result.action = "not_spam" /\ result.topic # NULL ->
           [q |-> QuestionSave([question EXCEPT !.topic = result.topic,
                                                !.tag = result.topic], FALSE, NULL),
            flags |-> Append(rows, Flag("accepted", "content_moderation",
                                        Notes(result.reason)))]
      [] OTHER -> [q |-> question, flags |-> rows]

\* process_classification_result(question, result)
ProcessClassificationResult(result) ==
    /\ q.exists
    /\ ~q.is_spam
    /\ flags = <<>>
    /\ now < MaxTime
    /\ now' = now + 1
    /\ LET r == Processed(q, flags, result, now')
       IN  /\ q' = r.q
           /\ flags' = r.flags
    /\ verdict' = result
    /\ Record("classify", NULL, SumoBot, FALSE, result.action)
    /\ UNCHANGED <<answers, nextId, users, pending>>
    /\ UNCHANGED <<site, cleanup, taking, saving>>

\* ------------------------------------------------------------ spam cleanup
\* The periodic job cleanup_old_spam.  The task is in tasks.py; the handler it
\* calls, OldSpamCleanupHandler, is described by the specification only:
\* it deletes the questions and the answers marked as spam before the cutoff
\* and counts them, answers that go with their question not being counted.

\* filter(is_spam=True, marked_as_spam__lt=cutoff_date): a row without a stamp
\* never matches.
OldSpam(row, cutoff_date) ==
    row.is_spam /\ row.marked_as_spam # NULL /\ row.marked_as_spam < cutoff_date

\* The handler's first part: the old spam questions are deleted, their answers
\* with them.
CleanupQuestions(question, ans, cutoff_date) ==
    IF question.exists /\ OldSpam(question, cutoff_date)
    THEN [q |-> [question EXCEPT !.exists = FALSE, !.last_answer = NULL,
                                 !.solution = NULL],
          answers |-> <<>>, count |-> 1]
    ELSE [q |-> question, answers |-> ans, count |-> 0]

\* The handler's second part: the old spam answers of the questions that stay
\* are deleted (last_answer and solution are on_delete=SET_NULL).
CleanupAnswers(question, ans, cutoff_date) ==
    LET old == {a \in DOMAIN ans : OldSpam(ans[a], cutoff_date)}
    IN  [q |-> [question EXCEPT !.last_answer = IF @ \in old THEN NULL ELSE @,
                                !.solution = IF @ \in old THEN NULL ELSE @],
         answers |-> [a \in DOMAIN ans \ old |-> ans[a]],
         count |-> Cardinality(old)]

\* The points at which handler.cleanup_old_spam() may raise an unexpected
\* exception: not at all, before it deleted anything, or between its two parts.
Raises == {"never", "at_questions", "at_answers"}

\* handler.cleanup_old_spam() run at instant t: the rows it leaves, what it
\* deleted, and whether it raised.
HandlerCleanupOldSpam(question, ans, t, raises) ==
    LET cutoff_date == t - SPAM_CUTOFF
        r1 == CleanupQuestions(question, ans, cutoff_date)
        r2 == CleanupAnswers(r1.q, r1.answers, cutoff_date)
    IN  CASE raises = "at_questions" ->
               [q |-> question, answers |-> ans, raised |-> TRUE,
                questions_deleted |-> 0, answers_deleted |-> 0]
          [] raises = "at_answers" ->
               [q |-> r1.q, answers |-> r1.answers, raised |-> TRUE,
                questions_deleted |-> r1.count, answers_deleted |-> 0]
          [] OTHER ->
               [q |-> r2.q, answers |-> r2.answers, raised |-> FALSE,
                questions_deleted |-> r1.count, answers_deleted |-> r2.count]

\* What the task cleanup_old_spam makes of the handler's run h: an exception is
\* passed to capture_exception and nothing is logged or returned; otherwise
\* the counts are logged and returned.  gone_* keep what the handler deleted.
TaskOutcome(h) ==
    IF h.raised
    THEN [status |-> "captured", reported |-> FALSE, questions_deleted |-> 0,
          answers_deleted |-> 0,
          gone_questions |-> h.questions_deleted, gone_answers |-> h.answers_deleted]
    ELSE [status |-> "completed", reported |-> TRUE,
          questions_deleted |-> h.questions_deleted,
          answers_deleted |-> h.answers_deleted,
          gone_questions |-> h.questions_deleted, gone_answers |-> h.answers_deleted]

\* The task cleanup_old_spam()
CleanupOldSpam(raises) ==
    /\ now < MaxTime
    /\ now' = now + 1
    /\ LET h == HandlerCleanupOldSpam(q, answers, now', raises)
       IN  /\ q' = h.q
           /\ answers' = h.answers
           /\ cleanup' = TaskOutcome(h)
           /\ Record("cleanup", NULL, NULL, FALSE, IF h.raised THEN "captured" ELSE "ok")
    /\ UNCHANGED <<nextId, users, pending>>
    /\ UNCHANGED <<site, requests>>

\* ----------------------------------------------------------- specifications
\* The answers of the question: replies, moderation, deletion, the paging job.
Next ==
    \/ \E spam \in BOOLEAN : CreateAnswer(spam)
    \/ \E a \in 1..MaxAnswers : AnswerMarkAsSpam(a, Moderator)
    \/ \E a \in 1..MaxAnswers : AnswerDelete(a)
    \/ UpdateAnswerPages
    \/ \E a \in 1..MaxAnswers : SetSolution(a)
    \/ QuestionDelete

Spec == Init /\ [][Next]_vars

\* The claim on the question: take, is_taken, users leaving, time passing.
NextTake ==
    \/ \E u \in Users, force \in BOOLEAN : Take(u, force)
    \/ IsTaken
    \/ \E u \in Users : UserDelete(u)
    \/ Tick

SpecTake == Init /\ [][NextTake]_vars

\* The visit counts: the reload, statement by statement, and questions being
\* deleted meanwhile.
NextVisits ==
    \/ \E pageviews \in Pageviews : StartReload(pageviews)
    \/ DeleteStale
    \/ FilterBatch
    \/ InsertBatch
    \/ \E id \in QuestionIds : SiteQuestionDelete(id)

SpecVisits == Init /\ [][NextVisits]_vars

\* The vote counts: votes, the two sync tasks, questions being deleted, time
\* passing.
NextVotes ==
    \/ \E id \in VotedIds : CastVote(id)
    \/ \E id \in VotedIds : UpdateQuestionVotes(id)
    \/ \E question_ids \in SUBSET VotedIds : UpdateQuestionVoteChunk(question_ids)
    \/ ClockTick
    \/ \E id \in VotedIds : SiteQuestionDelete(id)

SpecVotes == Init /\ [][NextVotes]_vars

\* The two jobs queued for a question, and the question being deleted before
\* they run: the followed question with its answers and update_answer_pages,
\* the site's questions with their votes and update_question_votes.
NextJobs ==
    \/ CreateAnswer(FALSE)
    \/ \E a \in 1..MaxAnswers : AnswerDelete(a)
    \/ QuestionDelete
    \/ UpdateAnswerPages
    \/ \E id \in JobIds : CastVote(id)
    \/ \E id \in JobIds : SiteQuestionDelete(id)
    \/ \E id \in JobIds : UpdateQuestionVotes(id)

SpecJobs == Init /\ [][NextJobs]_vars

\* Moderation: replies, content being marked as spam by either moderator, and
\* the cleanup job.
NextSpam ==
    \/ \E spam \in BOOLEAN : CreateAnswer(spam)
    \/ \E a \in 1..MaxAnswers, by_user \in SpamActors : AnswerMarkAsSpam(a, by_user)
    \/ \E by_user \in SpamActors : QuestionMarkAsSpam(by_user)
    \/ \E raises \in Raises : CleanupOldSpam(raises)

SpecSpam == Init /\ [][NextSpam]_vars

\* The answers of the question under replies that are not spam, moderation and
\* deletion only.
NextAnswers ==
    \/ CreateAnswer(FALSE)
    \/ \E a \in 1..MaxAnswers : AnswerMarkAsSpam(a, Moderator)
    \/ \E a \in 1..MaxAnswers : AnswerDelete(a)

SpecAnswers == Init /\ [][NextAnswers]_vars

\* Every answer the analytics source can give over the ids it may report, with
\* one figure.
WidePageviews == UNION {[S -> {1}] : S \in SUBSET AnalyticsIds}

\* The reload alone, over analytics answers longer than its buffer.
NextBuffers ==
    \/ \E pageviews \in WidePageviews : StartReload(pageviews)
    \/ DeleteStale
    \/ FilterBatch
    \/ InsertBatch

SpecBuffers == Init /\ [][NextBuffers]_vars

\* The claim under concurrent requests: each loads the question, then takes it.
NextTakeRace ==
    \/ \E user \in Takers : TakeLoad(user)
    \/ \E user \in Takers : TakeLoaded(user)
    \/ Tick
    \/ IsTaken

SpecTakeRace == Init /\ [][NextTakeRace]_vars

\* Two requests saving a new answer each, statement by statement, under a
\* question that may have an answer already.
NextSaveRace ==
    \/ EarlierAnswer
    \/ \E r \in Savers : SaveBegin(r)
    \/ \E r \in Savers : SaveInsert(r)
    \/ \E r \in Savers : SaveCount(r)
    \/ \E r \in Savers : SaveQuestion(r)

SpecSaveRace == Init /\ [][NextSaveRace]_vars

\* A new question: its classification, replies, and the moderators marking it
\* as spam.
NextModeration ==
    \/ \E result \in ClassificationResults : ProcessClassificationResult(result)
    \/ CreateAnswer(FALSE)
    \/ \E a \in 1..MaxAnswers : AnswerMarkAsSpam(a, Moderator)
    \/ \E by_user \in SpamActors : QuestionMarkAsSpam(by_user)

SpecModeration == Init /\ [][NextModeration]_vars

\* ------------------------------------------------------------ claims: paging
\* 0-based rank of answer a among the non-spam answers by creation time.
RankOf(ans, a) == Cardinality({j \in NonSpam(ans) : ans[j].created < ans[a].created})

\* Every non-spam answer is on the page of its rank.
PagesCorrect == \A a \in NonSpam(answers) : answers[a].page = RankOf(answers, a) \div ANSWERS_PER_PAGE + 1

C2_RecomputeOnMembershipChange ==
    (last.op \in {"spam", "delete"} /\ ~last.was_spam /\ pending = 0) => PagesCorrect

\* ------------------------------------------------- claims: last_answer, solution
\* The most recently created of the answers that exist, NULL if there is none.
MostRecentAnswer ==
    IF DOMAIN answers = {} THEN NULL ELSE NthByCreatedDesc(answers, DOMAIN answers, 0)

\* C3 (as claimed): after the deletion of the answer that was the question's
\* last_answer, last_answer is the most recently created remaining answer, or
\* NULL if none remains.
C3_LastAnswerAfterDelete ==
    (last.op = "delete" /\ last.was_last) => q.last_answer = MostRecentAnswer

\* C4: after the deletion of the answer that was the question's solution, the
\* solution is NULL, the question exists and so do all its other answers.
C4_SolutionCleared ==
    (last.op = "delete" /\ last.was_solution) =>
        /\ q.solution = NULL
        /\ q.exists
        /\ DOMAIN answers = last.others

\* C4 witness: the solution was deleted and other answers are left.
C4_Witness ==
    /\ last.op = "delete" /\ last.was_solution
    /\ DOMAIN answers # {}
    /\ q.solution = NULL

\* ------------------------------------------------------ claims: the claim
\* The last handler was Question.take(user, force).
Took(user, force) == last.op = "take" /\ last.user = user /\ last.force = force

\* The claim is as it was before the last handler.
ClaimUnchanged == q.taken_by = last.pre_by /\ q.taken_until = last.pre_until

\* C5: take by the question's creator raises InvalidUserException, with or
\* without force and whoever holds the claim, and leaves the claim unchanged.
C5_CreatorCannotTake ==
    \A force \in BOOLEAN :
        Took(Creator, force) => last.res = "InvalidUserException" /\ ClaimUnchanged

\* C5 witness: the creator forced a take of a question somebody holds.
C5_Witness ==
    Took(Creator, TRUE) /\ last.pre_by # NULL /\ last.res = "InvalidUserException"

\* When the last handler started, the claim was held by a user other than u
\* and had not expired.
HeldByOther(u) ==
    last.pre_by \notin {NULL, u} /\ last.pre_until # NULL /\ last.pre_until >= now

\* C6 (as claimed): take without force of a question whose claim is held by a
\* different user raises AlreadyTakenException and leaves the claim unchanged.
C6_TakenByOtherFails ==
    \A u \in Users :
        (Took(u, FALSE) /\ HeldByOther(u)) =>
            last.res = "AlreadyTakenException" /\ ClaimUnchanged

\* C6 (amended): the same for every user except the question's creator.
C6_TakenByOtherFailsNonCreator ==
    \A u \in Users \ {Creator} :
        (Took(u, FALSE) /\ HeldByOther(u)) =>
            last.res = "AlreadyTakenException" /\ ClaimUnchanged

\* C6 witness: a user who is not the creator was refused a question that
\* another user holds.
C6_Witness ==
    \E u \in Users \ {Creator} :
        /\ Took(u, FALSE) /\ HeldByOther(u)
        /\ last.res = "AlreadyTakenException"
        /\ q.taken_by = last.pre_by

\* C7: take with force by anybody but the creator succeeds whoever holds the
\* claim, and hands the claim to that user.
C7_ForceTransfers ==
    \A u \in Users \ {Creator} :
        Took(u, TRUE) => last.res = "ok" /\ q.taken_by = u

\* C7 witness: a forced take took the claim from another user who still held it.
C7_Witness ==
    \E u \in Users \ {Creator} :
        /\ Took(u, TRUE) /\ HeldByOther(u)
        /\ q.taken_by = u

\* C8 (as claimed): a claim whose taken_until is in the past counts as no
\* claim: take without force by a user who is neither the creator nor the
\* holder succeeds and transfers the claim as on an unclaimed question.
C8_ExpiredClaimIsNoClaim ==
    \A u \in Users \ {Creator} :
        (/\ Took(u, FALSE)
         /\ last.pre_by \notin {NULL, u}
         /\ last.pre_until # NULL /\ last.pre_until < now)
        => /\ last.res = "ok"
           /\ q.taken_by = u
           /\ q.taken_until = now + TAKE_TIMEOUT

\* C9: is_taken is True exactly when taken_by and taken_until are set and
\* taken_until is not in the past; after a read that returned False both
\* fields are NULL.
C9_IsTaken ==
    last.op = "is_taken" =>
        /\ last.res = "True" <=>
               (last.pre_by # NULL /\ last.pre_until # NULL /\ ~(last.pre_until < now))
        /\ last.res = "False" => (q.taken_by = NULL /\ q.taken_until = NULL)

\* C9 witness: is_taken found an expired claim and cleared it.
C9_Witness ==
    /\ last.op = "is_taken" /\ last.res = "False"
    /\ last.pre_by # NULL /\ last.pre_until # NULL /\ last.pre_until < now
    /\ q.taken_by = NULL /\ q.taken_until = NULL

\* C10: a successful take sets taken_by to the user and taken_until to the
\* current time plus TAKE_TIMEOUT, which is later than the current time; the
\* holder may take again without force, and taken_until then moves later.
C10_TakeSetsClaim ==
    \A u \in Users :
        /\ (last.op = "take" /\ last.user = u /\ last.res = "ok") =>
               /\ q.taken_by = u
               /\ q.taken_until = now + TAKE_TIMEOUT
               /\ q.taken_until > now
        /\ (Took(u, FALSE) /\ u # Creator /\ last.pre_by = u) =>
               /\ last.res = "ok"
               /\ last.pre_until # NULL => q.taken_until > last.pre_until

\* C10 witness: the holder took the question again without force.
C10_Witness ==
    \E u \in Users :
        /\ Took(u, FALSE) /\ last.pre_by = u /\ last.res = "ok"
        /\ q.taken_until > last.pre_until

\* ------------------------------------------------------ claims: visit counts
\* C11: reload_from_analytics never leaves a QuestionVisits row for a question
\* that does not exist, be it an id of the analytics answer that never was a
\* question's or a question deleted while the reload runs: every row refers to
\* an existing question.
C11_NoVisitsWithoutQuestion == QuestionsOf(visits) \subseteq qids

\* A reload has finished that met a question deleted between the two statements
\* of create_batch, and it left rows.
C11_Witness ==
    /\ run.pc = "done"
    /\ run.errors > 0
    /\ DOMAIN run.pageviews \ qids # {}
    /\ visits # {}

\* C12: when a reload has finished, every question of the analytics answer that
\* exists has exactly one row, and the row holds the answer's figure, whatever
\* row the question had before.
C12_AnswerStored ==
    run.pc = "done" =>
        \A id \in DOMAIN run.pageviews \cap qids :
            RowsOf(visits, {id}) = {[question |-> id, visits |-> run.pageviews[id]]}

\* A reload of more than one sub-batch has finished and replaced a row that
\* held another figure.
C12_Witness ==
    /\ run.pc = "done"
    /\ Len(run.items) > BATCH_SIZE
    /\ \E r \in run.before : /\ r.question \in DOMAIN run.pageviews \cap qids
                             /\ r.visits # run.pageviews[r.question]

\* C13: a reload called again with the analytics answer of the reload that
\* finished before it, no question having changed since (so the table is still
\* as the first reload left it), finishes and leaves the table as it found it.
C13_ReloadTwice ==
    (run.repeat /\ run.pc \in {"done", "aborted"}) =>
        (run.pc = "done" /\ visits = run.before)

\* Such a second reload has finished, over more than one sub-batch.
C13_Witness ==
    /\ run.repeat
    /\ run.pc = "done"
    /\ Len(run.items) > BATCH_SIZE
    /\ visits # {}

\* C14, as stated: when the retry of a sub-batch fails too, the rows are those
\* before the call.
C14_RowsAsBeforeCall ==
    run.pc = "aborted" => (run.attempt = 2 /\ visits = run.before)

\* C14, amended: a sub-batch is tried at most twice; when its retry fails too,
\* the reload ends with that error and the rows of every question that still
\* exists are those before the call, whatever earlier buffers and sub-batches
\* deleted and inserted.  (A question deleted by another request during the
\* reload has taken its own row with it.)
C14_RetryOnceThenUndo ==
    /\ run.attempt \in {1, 2}
    /\ run.pc = "aborted" => (run.attempt = 2 /\ visits = RowsOf(run.before, qids))

\* A reload has ended with the error of a retry after it had deleted rows.
C14_Witness ==
    /\ run.pc = "aborted"
    /\ run.errors = 2
    /\ RowsOf(run.before, run.touched) # {}

\* ------------------------------------------------------------ claims: votes
\* The task update_question_votes has just run for one existing question.
Synced == vlast.op = "sync" /\ vlast.res = "ok"

\* The votes of question id.
VotesOf(id) == {v \in votes : v.question = id}

C17_ChunkAsSync ==
    vlast.op = "chunk" =>
        /\ DOMAIN nvpw = qids
        /\ \A id \in vlast.ids \cap qids :
              nvpw[id] = SyncQuestion(nvpw, id, votes, now)[id]
        /\ \A id \in qids \ vlast.ids : nvpw[id] = vlast.others[id]

\* The chunk task has run for a list with a question that has a vote created
\* more than seven days ago and still in the window, while a question outside
\* the list keeps a counter that is out of date.
C17_Witness ==
    /\ vlast.op = "chunk"
    /\ \E id \in vlast.ids \cap qids :
          /\ nvpw[id] > 0
          /\ \E v \in VotesOf(id) : v.created < now - Timedelta(PAST_WEEK_DAYS)
    /\ \E id \in qids \ vlast.ids : nvpw[id] # SyncQuestion(nvpw, id, votes, now)[id]

\* ------------------------------------------------- claims: jobs, no question
\* What is stored of questions, answers and votes.
stored == <<q, answers, qids, votes, nvpw, visits>>

\* C18: update_answer_pages and update_question_votes run for a question that
\* no longer exists end without raising (the exception Question.DoesNotExist is
\* caught) and change no stored question, answer or vote.
C18_MissingQuestionNoOp ==
    /\ [](last.op = "pages" => last.res = IF q.exists THEN "ok" ELSE "DoesNotExist")
    /\ [](vlast.op = "sync" =>
              vlast.res = IF vlast.ids \subseteq qids THEN "ok" ELSE "DoesNotExist")
    /\ [][(pending' < pending /\ ~q.exists) => UNCHANGED stored]_vars
    /\ [][(vlast' # vlast /\ vlast'.op = "sync" /\ vlast'.res # "ok") => UNCHANGED stored]_vars

\* Both jobs have run for a question deleted before them, one that had answers
\* and one that had votes.
C18_Witness ==
    /\ last.op = "pages"
    /\ last.res = "DoesNotExist"
    /\ nextId > 1
    /\ vlast.op = "sync"
    /\ vlast.res = "DoesNotExist"
    /\ nextVote > 1

C20_ReportsPartialResults ==
    /\ cleanup.status \in {"idle", "completed", "captured"}
    /\ cleanup.status # "idle" =>
          /\ cleanup.reported
          /\ cleanup.questions_deleted = cleanup.gone_questions
          /\ cleanup.answers_deleted = cleanup.gone_answers

\* ------------------------------------------- claims: the question's aggregates
\* C22: the save of a new answer leaves the question with num_answers the
\* number of its non-spam answers, the new one included when it is not spam,
\* with last_answer the new answer, and with a later updated stamp.
C22_NewAnswerUpdatesQuestion ==
    [][(now' # now /\ last'.op = "create")
         => /\ DOMAIN answers' = DOMAIN answers \cup {last'.a}
            /\ last'.a \notin DOMAIN answers
            /\ q'.num_answers = Cardinality(NonSpam(answers))
                                  + (IF answers'[last'.a].is_spam THEN 0 ELSE 1)
            /\ q'.last_answer = last'.a
            /\ q'.updated > q.updated]_vars

\* A reply that is not spam was saved under a question that already had a spam
\* answer and a non-spam one.
C22_Witness ==
    /\ last.op = "create"
    /\ ~answers[last.a].is_spam
    /\ q.num_answers = 2
    /\ Cardinality(DOMAIN answers) = 3
    /\ q.last_answer = last.a

\* The pages of the stored answers.
PagesOf(ans) == [a \in DOMAIN ans |-> ans[a].page]

\* The answers with their pages wiped.
WithoutPages(ans) == [a \in DOMAIN ans |-> [ans[a] EXCEPT !.page = 0]]

NothingRemoved ==
    /\ DOMAIN answers = 1..(nextId - 1)
    /\ NonSpam(answers) = DOMAIN answers

\* C24: a new answer's page is floor(n / ANSWERS_PER_PAGE) + 1 for n the
\* question's num_answers before the save; while no answer of the question
\* was deleted or is spam, it is the page update_answer_pages would give
\* that answer.
C24_NewAnswerPage ==
    /\ [][(now' # now /\ last'.op = "create")
            => answers'[last'.a].page = q.num_answers \div ANSWERS_PER_PAGE + 1]_vars
    /\ []((last.op = "create" /\ NothingRemoved)
            => answers[last.a].page =
                 PagesLoop(q, answers, OrderByCreated(answers, NonSpam(answers)), 0,
                           now).answers[last.a].page)

\* The third answer in a row was saved, onto the second page.
C24_Witness ==
    /\ last.op = "create"
    /\ NothingRemoved
    /\ Cardinality(DOMAIN answers) = ANSWERS_PER_PAGE + 1
    /\ answers[last.a].page = 2

\* C25: after an answer was created, marked as spam or deleted, num_answers is
\* the number of the question's existing non-spam answers, and it is never
\* negative.
C25_NumAnswersIsCount ==
    /\ q.num_answers >= 0
    /\ last.op \in {"create", "spam", "delete"}
         => q.num_answers = Cardinality(NonSpam(answers))

\* C26: last_answer is null or an existing answer of the question that is not
\* spam.
C26_LastAnswerNotSpam ==
    \/ q.last_answer = NULL
    \/ /\ q.last_answer \in DOMAIN answers
       /\ ~answers[q.last_answer].is_spam

\* ------------------------------------------- claims: visit counts, the buffers
\* C29: while a reload runs and after it, finished or given up, the row of
\* every question that exists and that the reload's analytics answer does not
\* name is as it was before the call: the reload neither deleted nor changed
\* it.
C29_OnlyInputIdsChange ==
    run.pc # "idle" =>
        LET absent == qids \ DOMAIN run.pageviews
        IN  RowsOf(visits, absent) = RowsOf(run.before, absent)

\* A reload has finished and changed the table, in which a row of a question
\* that its analytics answer did not name is as before.
C29_Witness ==
    /\ run.pc = "done"
    /\ visits # run.before
    /\ \E r \in visits : r.question \notin DOMAIN run.pageviews /\ r \in run.before

\* The ids of the analytics answer that come before the buffer being flushed.
Flushed == {run.items[k] : k \in 1..(run.i - Len(run.question_ids))}

\* The rows a flush leaves for the ids: one for each id of an existing
\* question, with the figure of the analytics answer.
StoredFor(ids) ==
    RowsOf(visits, ids) = {[question |-> id, visits |-> run.pageviews[id]] : id \in ids \cap qids}

\* C30: the buffers of a reload are consecutive pieces of its input of at most
\* BUFFER_SIZE ids, only the last of them shorter; a buffer is flushed, by one
\* delete and inserts of at most BATCH_SIZE ids, before the next is filled; no
\* id is in two buffers; at the end every id was in exactly one flushed buffer,
\* those of the last, shorter one included; an empty input changes nothing.
C30_EveryPairOnce ==
    /\ \A id \in AnalyticsIds : run.seen[id] <= 1
    /\ Running =>
         /\ Len(run.question_ids) \in 1..BUFFER_SIZE
         /\ run.question_ids =
              SubSeq(run.items, run.i - Len(run.question_ids) + 1, run.i)
         /\ (run.i - Len(run.question_ids)) % BUFFER_SIZE = 0
         /\ Len(run.question_ids) < BUFFER_SIZE => run.i = Len(run.items)
         /\ \A k \in DOMAIN run.batches : Len(run.batches[k]) \in 1..BATCH_SIZE
         /\ \A id \in Flushed : run.seen[id] = 1
         /\ StoredFor(Flushed)
    /\ run.pc = "done" =>
         /\ \A id \in AnalyticsIds :
              run.seen[id] = IF id \in DOMAIN run.pageviews THEN 1 ELSE 0
         /\ StoredFor(DOMAIN run.pageviews)
         /\ run.items = <<>> => visits = run.before

\* A reload has finished whose input made a full buffer and a shorter one, and
\* which replaced or added rows.
C30_Witness ==
    /\ run.pc = "done"
    /\ Len(run.items) > BUFFER_SIZE
    /\ Len(run.items) % BUFFER_SIZE # 0
    /\ visits # run.before

\* ------------------------------------------------------ claims: concurrency
\* C27: when the requests of two users, neither the creator, ran concurrently
\* (each loaded the question before the other had taken it, while nobody held
\* the claim) and both called take without force, at most one of the calls
\* succeeded and the other raised AlreadyTakenException.
C27_OneTakerWins ==
    (\A user \in Takers : /\ taking[user].pc = "done"
                          /\ taking[user].concurrent
                          /\ taking[user].self.taken_by = NULL)
      => \E user \in Takers :
            /\ taking[user].res = "AlreadyTakenException"
            /\ \A other \in Takers \ {user} : taking[other].res = "ok"

\* C28: when two requests saved a new answer each and ran concurrently, then
\* after both have finished num_answers is the number of the question's
\* non-spam answers and last_answer is the more recently created of the two.
C28_BothSavesCounted ==
    (\A r \in Savers : saving[r].pc = "done" /\ saving[r].concurrent)
      => /\ q.num_answers = Cardinality(NonSpam(answers))
         /\ \E r \in Savers :
               /\ q.last_answer = saving[r].id
               /\ \A o \in Savers : saving[o].created <= saving[r].created

\* ----------------------------------------------------- claims: classification
\* C21: processing a classifier's result applies one outcome.  "spam": the
\* question is marked as spam by the system bot and no flag is made.
\* "flag-for-review": exactly one flag is made, pending, with reason spam and
\* the classifier's reason in its notes, and the question, its topic and its
\* is_spam included, stays as it was.  "not-spam" with a topic result: the
\* question's topic and topic tag become the returned topic, one accepted
\* content-moderation flag with the reason in its notes is made, and is_spam
\* stays false.
C21_OneOutcomePerVerdict ==
    [][(now' # now /\ last'.op = "classify")
         => /\ verdict'.action = "spam"
                 => /\ q' = [q EXCEPT !.is_spam = TRUE, !.marked_as_spam = now',
                                      !.marked_as_spam_by = SumoBot]
                    /\ flags' = flags
            /\ verdict'.action = "flag_review"
                 => /\ q' = q /\ ~q'.is_spam
                    /\ Len(flags') = Len(flags) + 1
                    /\ SubSeq(flags', 1, Len(flags)) = flags
                    /\ LET flag == flags'[Len(flags')]
                       IN  /\ flag.status = "pending" /\ flag.reason = "spam"
                           /\ flag.creator = SumoBot
                           /\ Contains(flag.notes, verdict'.reason)
            /\ (verdict'.action = "not_spam" /\ verdict'.topic # NULL)
                 => /\ q' = [q EXCEPT !.topic = verdict'.topic, !.tag = verdict'.topic]
                    /\ ~q'.is_spam
                    /\ Len(flags') = Len(flags) + 1
                    /\ SubSeq(flags', 1, Len(flags)) = flags
                    /\ LET flag == flags'[Len(flags')]
                       IN  /\ flag.status = "accepted"
                           /\ flag.reason = "content_moderation"
                           /\ flag.creator = SumoBot
                           /\ Contains(flag.notes, verdict'.reason)]_vars

\* A question with a reply was moved to another topic by the classifier's
\* result, with the one flag this makes.
C21_Witness ==
    /\ last.op = "classify"
    /\ verdict.action = "not_spam"
    /\ verdict.topic \notin {NULL, InitialTopic}
    /\ q.topic = verdict.topic /\ q.tag = verdict.topic
    /\ ~q.is_spam
    /\ Len(flags) = 1
    /\ answers # <<>>
====
